---- MODULE Spec2Model ----
(***************************************************************************)
(* Model of the tele-auto-gram response orchestrator (bot.py), the sender  *)
(* store it writes to (storage.py) and the operator's manual send          *)
(* (web.py).                                                               *)
(*                                                                         *)
(* One inbound event is one run of handle_new_message; its Phase B is one  *)
(* asyncio task running _respond_to_sender.  The handlers and tasks run on *)
(* one cooperative event loop: the code between two awaits is one step.    *)
(***************************************************************************)
EXTENDS Integers, Sequences, FiniteSets, TLC

\* ---------------------------------------------------------------- bounds
\* external events in one run: inbound platform events and operator sends
MaxEvents == 2
\* events whose handling has started and not yet returned: all of them
\* while there are two events, one fewer beyond
MaxInFlight == IF MaxEvents > 2 THEN MaxEvents - 1 ELSE MaxEvents

\* submit_auth_code / submit_auth_password calls in one run
MaxSubmits == 3

\* cap of the lock registry (MAX_LOCKS; the registry is checked for small
\* caps, storage.py runs with 1000)
MaxLocks == 2
\* _get_lock calls in one run
MaxCalls == 4
\* entries of a record on disk at the start, and of an imported batch
MaxLen == 2
\* the latest clock value (the clock counts days)
MaxClock == 9
\* storage calls on one sender's record by concurrent threads in one run
MaxOps == 3
\* HTTP requests in one run
MaxRequests == 6
\* half minutes the web clock advances in one run
MaxTicks == 2
\* the largest delay, in seconds, a configuration names
MaxDelay == 11

\* ------------------------------------------------------ program constants
\* storage.get_messages_by_sender(sender_id, limit=20)
HistoryLimit == 20
\* storage._load_sender_messages: timedelta(days=7)
RetentionDays == 7
\* tests/test_web.py, TestRateLimiting: requests per minute
RateWindow == 60
\* "Auth endpoints are rate limited to 5 requests per minute"
AuthLimit == 5
\* "API endpoints are rate limited to 30 requests per minute"
ApiLimit == 30
\* bot.DEFAULT_DELAY_MIN, DEFAULT_READ_RECEIPT_DELAY_MIN = 3.0
DEFAULT_DELAY_MIN == 3
\* bot.DEFAULT_DELAY_MAX, DEFAULT_READ_RECEIPT_DELAY_MAX = 10.0
DEFAULT_DELAY_MAX == 10

Senders == {1, 2}
Msgs == 1..MaxEvents
NoTask == 0

\* positions of handle_new_message (and, web*, of web.send_message)
HandlerPcs == {"idle", "ignored", "store", "checkSync", "fetch", "import",
               "mark", "build", "await", "done", "raised", "storeRaised",
               "webRecord", "webDone", "webFailed"}
HandlerReturned ==
    {"ignored", "done", "raised", "storeRaised", "webDone", "webFailed"}
\* positions of the task running _respond_to_sender
TaskPcs == {"none", "created", "generating", "waiting", "sending",
            "recording", "profile", "done", "cancelled", "failed"}
\* asyncio.Task.done(): finished, cancelled, or ended with an exception
TaskFinished == {"done", "cancelled", "failed"}
TaskLive == TaskPcs \ (TaskFinished \cup {"none"})

VARIABLES
    hpc,        \* hpc[m]: position of the handler of event m
    sender,     \* sender[m]: sender (peer) id of event m, 0 before it arrives
    trivial,    \* trivial[m]: ai.is_trivial_message(event.message.message)
    imported,   \* imported[m]: value returned by _fetch_telegram_history
    tpc,        \* tpc[m]: position of the task created for event m
    hist,       \* hist[m]: existing_messages loaded by the task
    profSnap,   \* profSnap[m]: sender_profile loaded by the task
    delivered,  \* delivered[m]: the platform received the reply of task m
    written,    \* written[m]: the worker thread appended the 'sent' record
    writing,    \* tasks whose add_message('sent') is with a worker thread
    updMsgs,    \* updMsgs[m]: messages= argument of the profile update call
    pending,    \* _pending_responses: sender id -> task (NoTask if absent)
    record,     \* data/messages/<sender>.json: the sender's record
    synced,     \* history-sync marker per sender
    profile,    \* data/messages/<sender>.md: the sender's profile
    sendStarted,\* history: task m has entered its send step
    replyHist,  \* history: the history the delivered reply was made from
    afterReply, \* history: event m arrived after a reply to its sender
    lateStart,  \* history: a Phase B of the sender started after a send began
    preempted,  \* history: tasks not yet sending when the operator sent
    earlyCancel \* history: tasks cancelled before their send step began

VARIABLES
    auth_state, \* _auth_state: [status, error]
    auth_inputs,\* _auth_inputs: key -> submitted value or None
    auth_events,\* _code_event, _password_event: key -> the flag is set
    apc,        \* position of start_bot / _authenticate
    waitKey,    \* key of the _wait_for_input call in progress
    value,      \* the code or password handed to cl.sign_in
    wpc,        \* position of the web thread in submit_auth_*
    wkey,       \* the key the web thread is submitting
    submits,    \* history: number of submit_auth_* calls so far
    stray,      \* history: a submit began while no wait for its key was on
    owed,       \* history: keys whose slot holds a value submitted while
                \* the status was waiting for that key
    log         \* history: what the transport and the waits answered

VARIABLES
    locks,      \* _locks: <<[key, id]>> in insertion order, oldest first
    lpc,        \* lpc[t]: position of thread t in `with _get_lock(sid):`
    lkey,       \* lkey[t]: the sender key thread t works on, 0 if none
    lref,       \* lref[t]: the threading.Lock thread t got, 0 if none
    victim,     \* oldest_key of the eviction in progress, 0 if none
    calls       \* history: number of _get_lock calls so far

lvars == <<locks, lpc, lkey, lref, victim, calls>>

VARIABLES
    file,       \* data/messages/<sid>.json of one sender: its entries
    torn,       \* the file holds a truncated or unfinished json text
    clock,      \* datetime.now(), in days
    out,        \* what the last storage call returned
    saved,      \* the last storage call rewrote the file
    call        \* the last storage call: [op, batch, limit, nth, pruned]

VARIABLES
    fpc,        \* fpc[t]: position of thread t in its storage call
    fop,        \* fop[t]: the storage call thread t is in
    buf,        \* buf[t]: the list `messages` / `existing` of thread t
    msg,        \* msg[t]: the message dict add_message has built
    holder,     \* the thread holding the sender's lock, 0 if none
    acked,      \* history: ids of the messages whose add_message returned
    ops         \* history: number of storage calls started

VARIABLES
    wnow,       \* the time of the web server, in seconds
    hits,       \* history: hits[k]: times of the requests of key k that
                \* got past the before_request checks, last minute only
    resp        \* the last response: [n, key, status], n counts requests

wvars == <<wnow, hits, resp>>

VARIABLES
    rpc,        \* rpc[m]: what the read-receipt task of event m has done
    arg,        \* msg_cfg and the backend's answer of the call looked at
    ret         \* what that call computed, "pending" before it has

\* bot.py outside the orchestrator and the handshake
bvars == <<rpc, arg, ret>>

rvars == <<file, torn, clock>>
cvars == <<out, saved, call>>
fvars == <<fpc, fop, buf, msg, holder, acked, ops>>

\* what is neither the bot's nor the storage layer's
xvars == <<wvars, bvars>>

svars == <<lvars, rvars, cvars, fvars, xvars>>

avars == <<auth_state, auth_inputs, auth_events, apc, waitKey, value, wpc,
           wkey, submits, stray, owed, log>>

ovars == <<hpc, sender, trivial, imported, tpc, hist, profSnap, delivered,
           written, writing, updMsgs, pending, record, synced, profile,
           sendStarted, replyHist, afterReply, lateStart, preempted,
           earlyCancel>>

vars == <<ovars, avars, svars>>

hvars == <<hpc, sender, trivial, imported>>
tvars == <<tpc, hist, profSnap, delivered, written, writing, updMsgs>>
gvars == <<sendStarted, replyHist, afterReply, lateStart, preempted,
           earlyCancel>>

\* ------------------------------------------------------------ the record
\* One message dict of storage.py.  id is the event the message belongs to
\* (the inbound event, the task that replied, the operator's request) and 0
\* for a message imported from the platform history.
Entry(dir, id, ts, triv, src) ==
    [dir |-> dir, id |-> id, ts |-> ts, triv |-> triv, src |-> src]

\* messages[-limit:]
LastN(seq, n) ==
    IF n = 0 \/ Len(seq) <= n THEN seq
    ELSE SubSeq(seq, Len(seq) - n + 1, Len(seq))

\* list.sort(key=lambda msg: msg['timestamp']) : stable, ascending
RECURSIVE InsertByTs(_, _)
InsertByTs(sorted, e) ==
    IF sorted = <<>> THEN <<e>>
    ELSE IF sorted[Len(sorted)].ts <= e.ts THEN Append(sorted, e)
    ELSE Append(InsertByTs(SubSeq(sorted, 1, Len(sorted) - 1), e),
                sorted[Len(sorted)])

RECURSIVE SortByTs(_)
SortByTs(seq) ==
    IF seq = <<>> THEN <<>>
    ELSE InsertByTs(SortByTs(SubSeq(seq, 1, Len(seq) - 1)), seq[Len(seq)])

\* datetime.now() as add_message reads it: later than every timestamp the
\* record holds (the record is in timestamp order, so the last entry holds
\* the latest one).  Stamping and appending are taken as one step.
now(rec) == IF rec = <<>> THEN 1 ELSE rec[Len(rec)].ts + 1

\* storage.add_message: append one message stamped with the current time
add_message(rec, dir, id, triv, src) ==
    Append(rec, Entry(dir, id, now(rec), triv, src))

\* storage.import_messages: merge, sort by timestamp, save
import_messages(rec, batch) == SortByTs(rec \o batch)

\* storage.get_messages_by_sender(sender_id): the last `limit` messages
get_messages_by_sender(rec) == LastN(rec, HistoryLimit)

\* What cl.get_messages can return for a sender: nothing (or a failed
\* fetch), or earlier messages of the conversation, oldest first.
Batches ==
    { <<>>,
      <<Entry("received", 0, 0, FALSE, "platform")>> }

\* -------------------------------------------------------------------- Init
\* No event has arrived; marker says whether the senders' histories were
\* fetched in an earlier run of the bot.
NoEvents(marker) ==
    /\ hpc = [m \in Msgs |-> "idle"]
    /\ sender = [m \in Msgs |-> 0]
    /\ trivial = [m \in Msgs |-> FALSE]
    /\ imported = [m \in Msgs |-> <<>>]
    /\ tpc = [m \in Msgs |-> "none"]
    /\ hist = [m \in Msgs |-> <<>>]
    /\ profSnap = [m \in Msgs |-> 0]
    /\ delivered = [m \in Msgs |-> FALSE]
    /\ written = [m \in Msgs |-> FALSE]
    /\ writing = {}
    /\ updMsgs = [m \in Msgs |-> <<>>]
    /\ pending = [s \in Senders |-> NoTask]
    /\ record = [s \in Senders |-> <<>>]
    /\ synced = [s \in Senders |-> marker]
    /\ profile = [s \in Senders |-> 0]
    /\ sendStarted = [m \in Msgs |-> FALSE]
    /\ replyHist = [m \in Msgs |-> <<>>]
    /\ afterReply = [m \in Msgs |-> FALSE]
    /\ lateStart = [s \in Senders |-> FALSE]
    /\ preempted = {}
    /\ earlyCancel = {}

\* the first run of the bot
NoTraffic == NoEvents(FALSE)

\* ------------------------------------------------------- the auth state
None == "None"
Keys == {"code", "password"}
\* what the operator can type
Values == {"v1", "v2"}
\* error texts: the three fixed messages of _authenticate, the text of
\* AuthTimeoutError, and str(e) of a transport exception (which may be '')
InvalidCodeText == "Invalid verification code. Please try again."
ExpiredText == "Verification code expired. A new code has been sent."
InvalidPasswordText == "Invalid password. Please try again."
TimeoutText == "Timed out waiting for input"
ExcTexts == {"transport error", ""}

\* Variant: _set_auth_state writes the error and drops the status.
set_auth_state_error_only(st, status, error) ==
    [status |-> st.status,
     error |-> IF error # None THEN error ELSE st.error]

\* Variant: _set_auth_state writes the status and drops the error.
set_auth_state_status_only(st, status, error) ==
    [status |-> IF status # None THEN status ELSE st.status,
     error |-> st.error]

\* _set_auth_state(status=None, error=None): a field is written only when
\* its argument is not None
set_auth_state(st, status, error) ==
    [status |-> IF status # None THEN status ELSE st.status,
     error |-> IF error # None THEN error ELSE st.error]

\* Variant: the status is set and the error is left as it was.
set_auth_status_keep_error(st, status) ==
    [status |-> status, error |-> st.error]

\* _set_auth_status_and_clear_error(status)
set_auth_status_and_clear_error(st, status) ==
    [status |-> status, error |-> None]

\* module load: _auth_state, _auth_inputs, the two threading.Event objects
Disconnected ==
    /\ auth_state = [status |-> "disconnected", error |-> None]
    /\ auth_inputs = [k \in Keys |-> None]
    /\ auth_events = [k \in Keys |-> FALSE]
    /\ apc = "start"
    /\ waitKey = None
    /\ value = None
    /\ wpc = "idle"
    /\ wkey = None
    /\ submits = 0
    /\ stray = FALSE /\ owed = {}
    /\ log = <<>>

\* the session file was already authorized: _authenticate returned at once
\* and the client is dispatching events
Authenticated ==
    /\ auth_state = [status |-> "authorized", error |-> None]
    /\ auth_inputs = [k \in Keys |-> None]
    /\ auth_events = [k \in Keys |-> FALSE]
    /\ apc = "running"
    /\ waitKey = None
    /\ value = None
    /\ wpc = "idle"
    /\ wkey = None
    /\ submits = 0
    /\ stray = FALSE /\ owed = {}
    /\ log = <<"authorized">>

\* ---------------------------------------------------- the lock registry
Threads == {1, 2, 3}
SenderKeys == 1..(MaxLocks + 1)

\* module load: _locks = {}
NoLocks ==
    /\ locks = <<>>
    /\ lpc = [t \in Threads |-> "idle"]
    /\ lkey = [t \in Threads |-> 0]
    /\ lref = [t \in Threads |-> 0]
    /\ victim = 0
    /\ calls = 0

\* ------------------------------------------------- one sender's record
\* the clock values of a run, and the days the stored messages are from:
\* around the retention cutoff of those clock values
Clocks == (RetentionDays + 1)..MaxClock
Stamps == (MaxClock - RetentionDays - 1)..(MaxClock - RetentionDays + 1)

\* nth: how many loads in a row, at one clock value, the call completes
\* (2 for any beyond the first); pruned: the first of them rewrote the file
NoCall ==
    [op |-> "none", batch |-> <<>>, limit |-> 0, nth |-> 0, pruned |-> FALSE]

\* no record on disk, no storage call made
NoCalls ==
    /\ file = <<>>
    /\ torn = FALSE
    /\ clock = RetentionDays + 1
    /\ out = <<>>
    /\ saved = FALSE
    /\ call = NoCall

\* the threads that work on one sender's record at the same time
Workers == {1, 2}

\* no thread is inside a storage call
NoWorkers ==
    /\ fpc = [t \in Workers |-> "idle"]
    /\ fop = [t \in Workers |-> "none"]
    /\ buf = [t \in Workers |-> <<>>]
    /\ msg = [t \in Workers |-> <<>>]
    /\ holder = 0
    /\ acked = {}
    /\ ops = 0

\* storage.py as the orchestrator and the handshake see it: its calls are
\* steps of theirs, no thread of its own is followed (the functions over
\* threads are empty) and the single record is not looked at
StorageIdle ==
    /\ locks = <<>> /\ lpc = <<>> /\ lkey = <<>> /\ lref = <<>>
    /\ victim = 0 /\ calls = 0
    /\ file = <<>> /\ torn = FALSE /\ clock = 0
    /\ out = <<>> /\ saved = FALSE /\ call = <<>>
    /\ fpc = <<>> /\ fop = <<>> /\ buf = <<>> /\ msg = <<>>
    /\ holder = 0 /\ acked = {} /\ ops = 0

\* web.py before its first request
Clients == {1, 2}
RateKeys == {"auth", "api"} \X Clients
NoKey == <<"none", 0>>
NoRequests ==
    /\ wnow = 0
    /\ hits = [k \in RateKeys |-> <<>>]
    \* no response yet
    /\ resp = [n |-> 0, key |-> NoKey, status |-> 0]

\* web.py as the other threads see it: no request is followed
WebIdle == wnow = 0 /\ hits = <<>> /\ resp = <<>>

\* the tasks bot.py starts and does not wait for are not followed
BotIdle == rpc = <<>> /\ arg = <<>> /\ ret = <<>>

\* the bot once it handles messages
Init == NoTraffic /\ Authenticated /\ StorageIdle /\ WebIdle /\ BotIdle

\* ------------------------------------------------- cancellation, registry
\* Variant: _generate_response catches CancelledError like any failure and
\* the task goes on with the fallback text.
OnCancelSwallowed(pc) == IF pc = "generating" THEN "waiting" ELSE "cancelled"

\* Variant: the pre-send delay swallows CancelledError and the task goes
\* on to send.
OnCancelDelayIgnored(pc) == IF pc = "waiting" THEN "sending" ELSE "cancelled"

\* Where a task ends up when CancelledError is thrown into it at the await
\* it is suspended on.  Nothing in _respond_to_sender or its callees
\* catches it (they catch Exception only), so it always leaves the task.
OnCancel(pc) == "cancelled"

\* Variant: Phase B creates the new task without cancelling the old one.
cancelNone(tp, t) == tp

\* Variant: Phase B cancels every task of _pending_responses that is not
\* done, whoever its sender is.
cancelEvery(tp, t) ==
    [n \in DOMAIN tp |->
       IF tp[n] \in TaskLive THEN OnCancel(tp[n]) ELSE tp[n]]

\* if existing_task is not None and not existing_task.done():
\*     existing_task.cancel()
\* The loop throws CancelledError into the task before the task created
\* next takes its first step, and nothing reads the task in between.
cancel(tp, t) ==
    IF t # NoTask /\ tp[t] \notin TaskFinished
    THEN [tp EXCEPT ![t] = OnCancel(tp[t])]
    ELSE tp

\* Variant: the finally block removes the sender's entry whatever it holds.
cleanupAlways(p, s, m) == [p EXCEPT ![s] = NoTask]

\* Variant: the handler has no finally block.
cleanupNever(p, s, m) == p

\* finally: if _pending_responses.get(sender_id) is task: del ...
cleanup(p, s, m) ==
    IF p[s] = m THEN [p EXCEPT ![s] = NoTask] ELSE p

\* ai.update_sender_profile: the current profile, or a revised one
update_sender_profile(cur, m, revised) == IF revised THEN m ELSE cur

TasksOf(s) == {t \in Msgs : sender[t] = s /\ tpc[t] # "none"}

\* The locals of _respond_to_sender are gone once the task has ended.
Locals(f, tp, empty) ==
    [m \in Msgs |-> IF tp[m] \in TaskFinished THEN empty ELSE f[m]]

\* Phase B of handle_new_message: cancel the registered task, create and
\* register the new one, start awaiting it.
StartPhaseB(m) ==
    LET s == sender[m] IN
    /\ tpc' = [cancel(tpc, pending[s]) EXCEPT ![m] = "created"]
    /\ hist' = Locals(hist, tpc', <<>>)
    /\ profSnap' = Locals(profSnap, tpc', 0)
    /\ updMsgs' = Locals(updMsgs, tpc', <<>>)
    /\ pending' = [pending EXCEPT ![s] = m]
    /\ hpc' = [hpc EXCEPT ![m] = "await"]
    /\ lateStart' = [lateStart EXCEPT
                       ![s] = @ \/ \E t \in TasksOf(s) : sendStarted[t]]
    /\ earlyCancel' = earlyCancel \cup
          {t \in {pending[s]} \ {NoTask} :
             tpc[t] \in {"created", "generating", "waiting"}}

\* ---------------------------------------------- handle_new_message, Phase A
\* Sender ids are interchangeable: they are numbered in the order in which
\* the senders first appear.
IsNextSender(s) == \A r \in Senders : r < s => \E k \in Msgs : sender[k] = r

\* The events at work: their handler has not returned, or a worker thread
\* still holds a write for them.
InFlight ==
    {k \in Msgs : hpc[k] \notin HandlerReturned \cup {"idle"}} \cup writing

\* Events are numbered in the order in which their handling starts.
IsNextEvent(m) ==
    /\ hpc[m] = "idle"
    /\ \A k \in 1..(m - 1) : hpc[k] # "idle"
    /\ Cardinality(InFlight) < MaxInFlight

\* What ai.is_trivial_message can answer for the text of event m: either
\* answer for the first two events, a non-trivial text beyond them
Trivials(m) == IF m > 2 THEN {FALSE} ELSE BOOLEAN

\* A private message with a body arrives; the handler resolves the sender,
\* loads the configuration and hands add_message to a worker thread.
Arrive(m) ==
    /\ IsNextEvent(m)
    /\ \E s \in Senders, triv \in Trivials(m) :
         /\ IsNextSender(s)
         /\ sender' = [sender EXCEPT ![m] = s]
         /\ trivial' = [trivial EXCEPT ![m] = triv]
         /\ afterReply' = [afterReply EXCEPT
                             ![m] = \E t \in TasksOf(s) : delivered[t]]
    /\ hpc' = [hpc EXCEPT ![m] = "store"]
    /\ UNCHANGED <<imported, tvars, pending, record, synced, profile,
                   sendStarted, replyHist, lateStart, preempted, earlyCancel>>
    /\ UNCHANGED <<avars, svars>>

\* if not event.is_private: return  /  if not message_text: return
Ignore(m) ==
    /\ IsNextEvent(m)
    /\ hpc' = [hpc EXCEPT ![m] = "ignored"]
    /\ UNCHANGED <<sender, trivial, imported, tvars, pending, record, synced,
                   profile, gvars>>
    /\ UNCHANGED <<avars, svars>>

\* Variant: `await _delayed_read_receipt(cl, event, msg_cfg)`: the handler
\* goes on when the receipt is through.
await_read_receipt(m) == "receipt"

\* asyncio.create_task(_delayed_read_receipt(cl, event, msg_cfg)): the task
\* is made and the handler goes on to is_history_synced at once
create_read_receipt(m) == "checkSync"

\* storage.add_message('received', ...) returns; the read receipt is
\* started and is_history_synced is asked
StoreDone(m) ==
    /\ hpc[m] = "store"
    /\ record' = [record EXCEPT ![sender[m]] =
                    add_message(@, "received", m, trivial[m], "local")]
    /\ hpc' = [hpc EXCEPT ![m] = create_read_receipt(m)]
    /\ UNCHANGED <<sender, trivial, imported, tvars, pending, synced, profile,
                   gvars>>
    /\ UNCHANGED <<avars, svars>>

\* storage.add_message('received', ...) raises (OSError from open or
\* json.dump): nothing around the await catches it, the exception leaves
\* handle_new_message and the event object is released
StoreFail(m) ==
    /\ hpc[m] = "store"
    /\ hpc' = [hpc EXCEPT ![m] = "storeRaised"]
    /\ trivial' = [trivial EXCEPT ![m] = FALSE]
    /\ UNCHANGED <<sender, imported, tvars, pending, record, synced, profile,
                   gvars>>
    /\ UNCHANGED <<avars, svars>>

\* is_history_synced returns: synced -> Phase B at once; else fetch history
CheckSync(m) ==
    /\ hpc[m] = "checkSync"
    /\ IF synced[sender[m]]
       THEN StartPhaseB(m)
       ELSE /\ hpc' = [hpc EXCEPT ![m] = "fetch"]
            /\ UNCHANGED <<tpc, hist, profSnap, updMsgs, pending, lateStart,
                           earlyCancel>>
    /\ UNCHANGED <<sender, trivial, imported, delivered, written, writing,
                   record, synced, profile, sendStarted, replyHist,
                   afterReply, preempted>>
    /\ UNCHANGED <<avars, svars>>

\* _fetch_telegram_history: get_me / get_messages return (or raise: [])
FetchDone(m) ==
    /\ hpc[m] = "fetch"
    /\ \E b \in Batches :
         /\ imported' = [imported EXCEPT ![m] = b]
         /\ hpc' = [hpc EXCEPT ![m] = IF b = <<>> THEN "mark" ELSE "import"]
    /\ UNCHANGED <<sender, trivial, tvars, pending, record, synced, profile,
                   gvars>>
    /\ UNCHANGED <<avars, svars>>

\* _fetch_telegram_history: storage.import_messages returns
ImportDone(m) ==
    /\ hpc[m] = "import"
    /\ record' = [record EXCEPT ![sender[m]] =
                    import_messages(@, imported[m])]
    /\ hpc' = [hpc EXCEPT ![m] = "mark"]
    /\ UNCHANGED <<sender, trivial, imported, tvars, pending, synced, profile,
                   gvars>>
    /\ UNCHANGED <<avars, svars>>

\* storage.mark_history_synced returns; then the initial profile build is
\* started if anything was imported, else Phase B
MarkDone(m) ==
    /\ hpc[m] = "mark"
    /\ synced' = [synced EXCEPT ![sender[m]] = TRUE]
    /\ IF imported[m] # <<>>
       THEN /\ hpc' = [hpc EXCEPT ![m] = "build"]
            /\ UNCHANGED <<tpc, hist, profSnap, updMsgs, pending, lateStart,
                           earlyCancel>>
       ELSE StartPhaseB(m)
    /\ UNCHANGED <<sender, trivial, imported, delivered, written, writing,
                   record, profile, sendStarted, replyHist, afterReply,
                   preempted>>
    /\ UNCHANGED <<avars, svars>>

\* _update_sender_profile(use_all_messages=True, messages=imported) returns
BuildDone(m) ==
    /\ hpc[m] = "build"
    /\ \E revised \in BOOLEAN :
         LET current == profile[sender[m]]
             updated == update_sender_profile(current, m, revised) IN
         profile' = [profile EXCEPT ![sender[m]] =
                       IF updated # current THEN updated ELSE @]
    /\ imported' = [imported EXCEPT ![m] = <<>>]
    /\ StartPhaseB(m)
    /\ UNCHANGED <<sender, trivial, delivered, written, writing, record,
                   synced, sendStarted, replyHist, afterReply, preempted>>
    /\ UNCHANGED <<avars, svars>>

\* `await task` returns or raises; the finally block deregisters the task
HandlerFinish(m) ==
    /\ hpc[m] = "await"
    /\ tpc[m] \in TaskFinished
    /\ pending' = cleanup(pending, sender[m], m)
    /\ hpc' = [hpc EXCEPT
                 ![m] = IF tpc[m] = "failed" THEN "raised" ELSE "done"]
    /\ UNCHANGED <<sender, trivial, imported, tvars, record, synced, profile,
                   gvars>>
    /\ UNCHANGED <<avars, svars>>

\* ------------------------------------------- _respond_to_sender (Phase B)
\* The entry the task passes to the profile update for the reply it sent:
\* {'direction': 'sent', 'text': response_message}
ReplyOf(m) == Entry("sent", m, 0, FALSE, "reply")

\* load_config, get_messages_by_sender, load_sender_profile, load_identity
TaskLoad(m) ==
    /\ tpc[m] = "created"
    /\ hist' = [hist EXCEPT ![m] = get_messages_by_sender(record[sender[m]])]
    /\ profSnap' = [profSnap EXCEPT ![m] = profile[sender[m]]]
    /\ tpc' = [tpc EXCEPT ![m] = "generating"]
    /\ UNCHANGED <<hvars, delivered, written, writing, updMsgs, pending,
                   record, synced, profile, gvars>>
    /\ UNCHANGED <<avars, svars>>

\* _generate_response returns (generated text or the static fallback);
\* the delay is drawn and asyncio.sleep starts
TaskGenerated(m) ==
    /\ tpc[m] = "generating"
    /\ tpc' = [tpc EXCEPT ![m] = "waiting"]
    /\ UNCHANGED <<hvars, hist, profSnap, delivered, written, writing,
                   updMsgs, pending, record, synced, profile, gvars>>
    /\ UNCHANGED <<avars, svars>>

\* asyncio.sleep(delay) returns; event.respond is called
DelayElapsed(m) ==
    /\ tpc[m] = "waiting"
    /\ tpc' = [tpc EXCEPT ![m] = "sending"]
    /\ sendStarted' = [sendStarted EXCEPT ![m] = TRUE]
    /\ UNCHANGED <<hvars, hist, profSnap, delivered, written, writing,
                   updMsgs, pending, record, synced, profile, replyHist,
                   afterReply, lateStart, preempted, earlyCancel>>
    /\ UNCHANGED <<avars, svars>>

\* the platform accepts the reply; the task is still suspended in respond
SendDeliver(m) ==
    /\ tpc[m] = "sending"
    /\ ~delivered[m]
    /\ delivered' = [delivered EXCEPT ![m] = TRUE]
    /\ replyHist' = [replyHist EXCEPT ![m] = hist[m]]
    /\ UNCHANGED <<hvars, tpc, hist, profSnap, written, writing, updMsgs,
                   pending, record, synced, profile, sendStarted, afterReply,
                   lateStart, preempted, earlyCancel>>
    /\ UNCHANGED <<avars, svars>>

\* Variant: the reply is recorded although event.respond raised.
SendFailRecorded(m) ==
    /\ tpc[m] = "sending"
    /\ ~delivered[m]
    /\ tpc' = [tpc EXCEPT ![m] = "failed"]
    /\ record' = [record EXCEPT ![sender[m]] =
                    add_message(@, "sent", m, FALSE, "reply")]
    /\ hist' = Locals(hist, tpc', <<>>)
    /\ profSnap' = Locals(profSnap, tpc', 0)
    /\ UNCHANGED <<hvars, delivered, written, writing, updMsgs, pending,
                   synced, profile, gvars>>
    /\ UNCHANGED <<avars, svars>>

\* event.respond raises: the exception leaves _respond_to_sender
SendFail(m) ==
    /\ tpc[m] = "sending"
    /\ ~delivered[m]
    /\ tpc' = [tpc EXCEPT ![m] = "failed"]
    /\ hist' = Locals(hist, tpc', <<>>)
    /\ profSnap' = Locals(profSnap, tpc', 0)
    /\ UNCHANGED <<hvars, delivered, written, writing, updMsgs, pending,
                   record, synced, profile, gvars>>
    /\ UNCHANGED <<avars, svars>>

\* event.respond returns; add_message('sent', ...) goes to a worker thread
SendReturn(m) ==
    /\ tpc[m] = "sending"
    /\ delivered[m]
    /\ tpc' = [tpc EXCEPT ![m] = "recording"]
    /\ writing' = writing \cup {m}
    /\ UNCHANGED <<hvars, hist, profSnap, delivered, written, updMsgs,
                   pending, record, synced, profile, gvars>>
    /\ UNCHANGED <<avars, svars>>

\* the worker thread runs storage.add_message('sent', 'Me', reply).  It
\* runs whether or not the task that awaits it is still there: cancelling
\* the task withdraws the job only if no worker has picked it up yet (then
\* this step never happens).
RecordWrite(m) ==
    /\ m \in writing
    /\ writing' = writing \ {m}
    /\ record' = [record EXCEPT ![sender[m]] =
                    add_message(@, "sent", m, FALSE, "reply")]
    /\ written' = [written EXCEPT ![m] = TRUE]
    /\ UNCHANGED <<hvars, tpc, hist, profSnap, delivered, updMsgs, pending,
                   synced, profile, gvars>>
    /\ UNCHANGED <<avars, svars>>

\* The profile decision of _respond_to_sender:
\*     if not ai.is_trivial_message(event.message.message): update
NeedsProfileUpdate(m) == ~trivial[m]

\* to_thread(add_message) returns; the profile decision is taken
RecordReturn(m) ==
    /\ tpc[m] = "recording"
    /\ written[m]
    /\ IF NeedsProfileUpdate(m)
       THEN /\ tpc' = [tpc EXCEPT ![m] = "profile"]
            /\ updMsgs' = [updMsgs EXCEPT ![m] = Append(hist[m], ReplyOf(m))]
            /\ UNCHANGED <<hist, profSnap>>
       ELSE /\ tpc' = [tpc EXCEPT ![m] = "done"]
            /\ hist' = Locals(hist, tpc', <<>>)
            /\ profSnap' = Locals(profSnap, tpc', 0)
            /\ UNCHANGED updMsgs
    /\ UNCHANGED <<hvars, delivered, written, writing, pending, record,
                   synced, profile, gvars>>
    /\ UNCHANGED <<avars, svars>>

\* _update_sender_profile(messages=all_messages, sender_profile=...) returns
ProfileDone(m) ==
    /\ tpc[m] = "profile"
    /\ \E revised \in BOOLEAN :
         LET updated == update_sender_profile(profSnap[m], m, revised) IN
         profile' = [profile EXCEPT ![sender[m]] =
                       IF updated # profSnap[m] THEN updated ELSE @]
    /\ tpc' = [tpc EXCEPT ![m] = "done"]
    /\ hist' = Locals(hist, tpc', <<>>)
    /\ profSnap' = Locals(profSnap, tpc', 0)
    /\ updMsgs' = Locals(updMsgs, tpc', <<>>)
    /\ UNCHANGED <<hvars, delivered, written, writing, pending, record,
                   synced, gvars>>
    /\ UNCHANGED <<avars, svars>>

\* --------------------------------- web.send_message / send_message_to_user
\* What send_message_to_user does to the tasks of the peer before it sends
preempt(tp, s) == tp

\* bot.send_message_to_user returns: cl.send_message delivered the
\* operator's message to peer s
ManualDeliver(m) ==
    /\ auth_state.status = "authorized"
    /\ IsNextEvent(m)
    /\ \E s \in Senders :
         /\ IsNextSender(s)
         /\ sender' = [sender EXCEPT ![m] = s]
         /\ tpc' = preempt(tpc, s)
         /\ preempted' = preempted \cup
              {t \in TasksOf(s) : tpc[t] \in TaskLive /\ ~sendStarted[t]}
    /\ hpc' = [hpc EXCEPT ![m] = "webRecord"]
    /\ UNCHANGED <<trivial, imported, hist, profSnap, delivered, written,
                   writing, updMsgs, pending, record, synced, profile,
                   sendStarted, replyHist, afterReply, lateStart,
                   earlyCancel>>
    /\ UNCHANGED <<avars, svars>>

\* bot.send_message_to_user raises: the request answers 500, stores nothing
ManualFail(m) ==
    /\ auth_state.status = "authorized"
    /\ IsNextEvent(m)
    /\ hpc' = [hpc EXCEPT ![m] = "webFailed"]
    /\ UNCHANGED <<sender, trivial, imported, tvars, pending, record, synced,
                   profile, gvars>>
    /\ UNCHANGED <<avars, svars>>

\* web.send_message: storage.add_message('sent', 'Me', text, sender_id)
ManualRecord(m) ==
    /\ hpc[m] = "webRecord"
    /\ record' = [record EXCEPT ![sender[m]] =
                    add_message(@, "sent", m, FALSE, "manual")]
    /\ hpc' = [hpc EXCEPT ![m] = "webDone"]
    /\ UNCHANGED <<sender, trivial, imported, tvars, pending, synced, profile,
                   gvars>>
    /\ UNCHANGED <<avars, svars>>

\* -------------------------------------------------------------------- Next
Next ==
    \/ \E m \in Msgs : Arrive(m)
    \/ \E m \in Msgs : Ignore(m)
    \/ \E m \in Msgs : StoreDone(m)
    \/ \E m \in Msgs : StoreFail(m)
    \/ \E m \in Msgs : CheckSync(m)
    \/ \E m \in Msgs : FetchDone(m)
    \/ \E m \in Msgs : ImportDone(m)
    \/ \E m \in Msgs : MarkDone(m)
    \/ \E m \in Msgs : BuildDone(m)
    \/ \E m \in Msgs : HandlerFinish(m)
    \/ \E m \in Msgs : TaskLoad(m)
    \/ \E m \in Msgs : TaskGenerated(m)
    \/ \E m \in Msgs : DelayElapsed(m)
    \/ \E m \in Msgs : SendDeliver(m)
    \/ \E m \in Msgs : SendFail(m)
    \/ \E m \in Msgs : SendReturn(m)
    \/ \E m \in Msgs : RecordWrite(m)
    \/ \E m \in Msgs : RecordReturn(m)
    \/ \E m \in Msgs : ProfileDone(m)
    \/ \E m \in Msgs : ManualDeliver(m)
    \/ \E m \in Msgs : ManualFail(m)
    \/ \E m \in Msgs : ManualRecord(m)

Spec == Init /\ [][Next]_vars

\* A step of Phase A of the handler of event m: the await it is suspended
\* on returns or raises.
PhaseAStep(m) ==
    \/ StoreDone(m) \/ StoreFail(m) \/ CheckSync(m) \/ FetchDone(m)
    \/ ImportDone(m) \/ MarkDone(m) \/ BuildDone(m)

\* The event loop resumes every handler whose await has completed, and the
\* worker threads and the platform calls of Phase A all come back.
FairSpec == Spec /\ \A m \in Msgs : WF_vars(PhaseAStep(m))

TypeOK ==
    /\ hpc \in [Msgs -> HandlerPcs]
    /\ tpc \in [Msgs -> TaskPcs]
    /\ sender \in [Msgs -> Senders \cup {0}]
    /\ pending \in [Senders -> Msgs \cup {NoTask}]
    /\ synced \in [Senders -> BOOLEAN]
    /\ writing \subseteq Msgs
    /\ \A m \in writing : delivered[m] /\ ~written[m]

\* ---------------------------------------------- _delayed_read_receipt
\* The read receipts next to the orchestrator.  The task of event m exists
\* once the handler is past asyncio.create_task (bot.py:490); it sleeps
\* read_delay seconds and calls cl.send_read_acknowledge.
ReceiptCreated(m) ==
    hpc[m] \notin {"idle", "ignored", "store", "storeRaised", "webRecord",
                   "webDone", "webFailed"}

\* asyncio.sleep(read_delay) is over and cl.send_read_acknowledge returns
ReceiptAck(m) ==
    /\ ReceiptCreated(m)
    /\ rpc[m] = "asleep"
    /\ rpc' = [rpc EXCEPT ![m] = "over"]
    /\ UNCHANGED <<ovars, avars, lvars, rvars, cvars, fvars, wvars, arg, ret>>

\* cl.send_read_acknowledge raises: except Exception logs a warning and the
\* task ends as it does after an acknowledgement
ReceiptFail(m) ==
    /\ ReceiptCreated(m)
    /\ rpc[m] = "asleep"
    /\ rpc' = [rpc EXCEPT ![m] = "over"]
    /\ UNCHANGED <<ovars, avars, lvars, rvars, cvars, fvars, wvars, arg, ret>>

\* The inbound events of senders whose history was fetched in an earlier
\* run, and their receipts.
ReceiptNext ==
    \/ \E m \in Msgs : Arrive(m)
    \/ \E m \in Msgs : StoreDone(m)
    \/ \E m \in Msgs : StoreFail(m)
    \/ \E m \in Msgs : CheckSync(m)
    \/ \E m \in Msgs : HandlerFinish(m)
    \/ \E m \in Msgs : TaskLoad(m)
    \/ \E m \in Msgs : TaskGenerated(m)
    \/ \E m \in Msgs : DelayElapsed(m)
    \/ \E m \in Msgs : SendDeliver(m)
    \/ \E m \in Msgs : SendFail(m)
    \/ \E m \in Msgs : SendReturn(m)
    \/ \E m \in Msgs : RecordWrite(m)
    \/ \E m \in Msgs : RecordReturn(m)
    \/ \E m \in Msgs : ProfileDone(m)
    \/ \E m \in Msgs : ReceiptAck(m)
    \/ \E m \in Msgs : ReceiptFail(m)

ReceiptInit ==
    /\ NoEvents(TRUE) /\ Authenticated /\ StorageIdle /\ WebIdle
    /\ rpc = [m \in Msgs |-> "asleep"]
    /\ arg = <<>> /\ ret = <<>>

ReceiptSpec == ReceiptInit /\ [][ReceiptNext]_vars

\* ------------------------------------------- start_bot / _authenticate
\* The handshake of one run: start_bot -> _authenticate -> _wait_for_input,
\* on the bot thread's event loop, and the web thread's submit_auth_* calls.
AuthPcs == {"start", "requestCode", "clear", "reset", "wait", "got",
            "signIn", "resend", "signInPassword", "running", "stopped"}
Statuses == {"disconnected", "waiting_code", "waiting_password",
             "authorized", "error"}

\* Variant: start_bot puts the status back to disconnected when the
\* handshake fails.
start_bot_except_reset(st, exc) ==
    set_auth_state(st, "disconnected", TimeoutText)

\* Variant: start_bot returns on any exception without touching the state.
start_bot_except_silent(st, exc) == st

\* except (AuthTimeoutError, Exception) as e: in start_bot
\*     if isinstance(e, AuthTimeoutError): _set_auth_state('error', str(e))
\*     return
start_bot_except(st, exc) ==
    IF exc = "AuthTimeoutError"
    THEN set_auth_state(st, "error", TimeoutText)
    ELSE st

Logged(entry) == log' = Append(log, entry)

\* _wait_for_input is entered for key k
EnterWait(k) == apc' = "clear" /\ waitKey' = k

\* if await cl.is_user_authorized(): authorized, return
AuthCheck ==
    /\ apc = "start"
    /\ \/ /\ auth_state' = set_auth_status_and_clear_error(auth_state,
                                                          "authorized")
          /\ apc' = "running"
          /\ Logged("authorized")
       \/ /\ apc' = "requestCode"
          /\ Logged("unauthorized")
          /\ UNCHANGED auth_state
       \/ /\ auth_state' = start_bot_except(auth_state, "Exception")
          /\ apc' = "stopped"
          /\ Logged("checkFailed")
    /\ UNCHANGED <<ovars, svars, auth_inputs, auth_events, waitKey, value, wpc,
                   wkey, submits, stray, owed>>

\* await cl.send_code_request(phone): returns, or raises (status error,
\* error str(e), re-raised to start_bot)
RequestCode ==
    /\ apc = "requestCode"
    /\ \/ /\ auth_state' = set_auth_state(auth_state, "waiting_code", None)
          /\ EnterWait("code")
          /\ Logged("codeSent")
       \/ /\ \E text \in ExcTexts :
               auth_state' = start_bot_except(
                   set_auth_state(auth_state, "error", text), "Exception")
          /\ apc' = "stopped"
          /\ Logged("requestFailed")
          /\ UNCHANGED waitKey
    /\ UNCHANGED <<ovars, svars, auth_inputs, auth_events, value, wpc, wkey,
                   submits, stray, owed>>

\* _wait_for_input: event.clear()
WaitClear ==
    /\ apc = "clear"
    /\ auth_events' = [auth_events EXCEPT ![waitKey] = FALSE]
    /\ apc' = "reset"
    /\ UNCHANGED <<ovars, svars,
                   auth_state, auth_inputs, waitKey, value, wpc, wkey,
                   submits, stray, owed, log>>

\* _wait_for_input: _auth_inputs[key] = None; event.wait goes to a worker
WaitReset ==
    /\ apc = "reset"
    /\ auth_inputs' = [auth_inputs EXCEPT ![waitKey] = None]
    /\ owed' = owed \ {waitKey}
    /\ apc' = "wait"
    /\ UNCHANGED <<ovars, svars,
                   auth_state, auth_events, waitKey, value, wpc, wkey,
                   submits, stray, log>>

\* event.wait(timeout) returns True: the flag was set
WaitWake ==
    /\ apc = "wait"
    /\ auth_events[waitKey]
    /\ apc' = "got"
    /\ UNCHANGED <<ovars, svars, auth_state, auth_inputs, auth_events, waitKey,
                   value, wpc, wkey, submits, stray, owed, log>>

\* event.wait(timeout) returns False: AuthTimeoutError leaves
\* _wait_for_input and _authenticate and is caught in start_bot
WaitTimeout ==
    /\ apc = "wait"
    /\ ~auth_events[waitKey]
    /\ auth_state' = start_bot_except(auth_state, "AuthTimeoutError")
    /\ apc' = "stopped"
    /\ Logged("timeout")
    /\ UNCHANGED <<ovars, svars, auth_inputs, auth_events, waitKey, value, wpc,
                   wkey, submits, stray, owed>>

\* value = _auth_inputs[key]; _auth_inputs[key] = None; return value
\* and cl.sign_in is called with it
WaitRead ==
    /\ apc = "got"
    /\ value' = auth_inputs[waitKey]
    /\ auth_inputs' = [auth_inputs EXCEPT ![waitKey] = None]
    /\ owed' = owed \ {waitKey}
    /\ apc' = IF waitKey = "code" THEN "signIn" ELSE "signInPassword"
    /\ UNCHANGED <<ovars, svars, auth_state, auth_events, waitKey, wpc, wkey,
                   submits, stray, log>>

\* await cl.sign_in(phone, code) returns or raises
SignIn ==
    /\ apc = "signIn"
    /\ \/ /\ auth_state' = set_auth_status_and_clear_error(auth_state,
                                                          "authorized")
          /\ apc' = "running"
          /\ Logged("ok")
          /\ UNCHANGED waitKey
       \/ /\ auth_state' = set_auth_state(auth_state, "waiting_code",
                                          InvalidCodeText)
          /\ EnterWait("code")
          /\ Logged("invalid")
       \/ /\ apc' = "resend"
          /\ Logged("expired")
          /\ UNCHANGED <<auth_state, waitKey>>
       \/ /\ auth_state' = set_auth_status_and_clear_error(auth_state,
                                                          "waiting_password")
          /\ EnterWait("password")
          /\ Logged("needPassword")
       \/ /\ auth_state' = start_bot_except(auth_state, "Exception")
          /\ apc' = "stopped"
          /\ Logged("failed")
          /\ UNCHANGED waitKey
    /\ UNCHANGED <<ovars, svars, auth_inputs, auth_events, value, wpc, wkey,
                   submits, stray, owed>>

\* except PhoneCodeExpiredError: await cl.send_code_request(phone)
Resend ==
    /\ apc = "resend"
    /\ \/ /\ auth_state' = set_auth_state(auth_state, "waiting_code",
                                          ExpiredText)
          /\ EnterWait("code")
          /\ Logged("resent")
       \/ /\ \E text \in ExcTexts :
               auth_state' = start_bot_except(
                   set_auth_state(auth_state, "error", text), "Exception")
          /\ apc' = "stopped"
          /\ Logged("resendFailed")
          /\ UNCHANGED waitKey
    /\ UNCHANGED <<ovars, svars, auth_inputs, auth_events, value, wpc, wkey,
                   submits, stray, owed>>

\* await cl.sign_in(password=password) returns or raises
SignInPassword ==
    /\ apc = "signInPassword"
    /\ \/ /\ auth_state' = set_auth_status_and_clear_error(auth_state,
                                                          "authorized")
          /\ apc' = "running"
          /\ Logged("passwordOk")
          /\ UNCHANGED waitKey
       \/ /\ auth_state' = set_auth_state(auth_state, "waiting_password",
                                          InvalidPasswordText)
          /\ EnterWait("password")
          /\ Logged("wrongPassword")
       \/ /\ auth_state' = start_bot_except(auth_state, "Exception")
          /\ apc' = "stopped"
          /\ Logged("passwordFailed")
          /\ UNCHANGED waitKey
    /\ UNCHANGED <<ovars, svars, auth_inputs, auth_events, value, wpc, wkey,
                   submits, stray, owed>>

\* _wait_for_input(key) has been entered and its event.wait has not
\* returned yet
WaitPending(k) == apc \in {"clear", "reset", "wait"} /\ waitKey = k

\* the status under which the handshake waits for key k
Waiting(k) == IF k = "code" THEN "waiting_code" ELSE "waiting_password"

\* submit_auth_code / submit_auth_password: _auth_inputs[key] = value
SubmitWrite ==
    /\ wpc = "idle"
    /\ submits < MaxSubmits
    /\ \E k \in Keys, v \in Values :
         /\ auth_inputs' = [auth_inputs EXCEPT ![k] = v]
         /\ wkey' = k
         /\ stray' = (stray \/ ~WaitPending(k))
         /\ owed' = IF auth_state.status = Waiting(k)
                    THEN owed \cup {k} ELSE owed \ {k}
    /\ wpc' = "written"
    /\ submits' = submits + 1
    /\ UNCHANGED <<ovars, svars,
                   auth_state, auth_events, apc, waitKey, value, log>>

\* submit_auth_*: _set_auth_state(error=None)
SubmitClearError ==
    /\ wpc = "written"
    /\ auth_state' = set_auth_state(auth_state, None, None)
    /\ wpc' = "signal"
    /\ UNCHANGED <<ovars, svars, auth_inputs, auth_events, apc, waitKey, value,
                   wkey, submits, stray, owed, log>>

\* submit_auth_*: event.set()
SubmitSignal ==
    /\ wpc = "signal"
    /\ auth_events' = [auth_events EXCEPT ![wkey] = TRUE]
    /\ wpc' = "idle"
    /\ UNCHANGED <<ovars, svars,
                   auth_state, auth_inputs, apc, waitKey, value, wkey,
                   submits, stray, owed, log>>

AuthNext ==
    \/ AuthCheck
    \/ RequestCode
    \/ WaitClear
    \/ WaitReset
    \/ WaitWake
    \/ WaitTimeout
    \/ WaitRead
    \/ SignIn
    \/ Resend
    \/ SignInPassword
    \/ SubmitWrite
    \/ SubmitClearError
    \/ SubmitSignal

AuthInit ==
    NoTraffic /\ Disconnected /\ StorageIdle /\ WebIdle /\ BotIdle

AuthSpec == AuthInit /\ [][AuthNext]_vars

AuthTypeOK ==
    /\ auth_state.status \in Statuses
    /\ auth_state.error \in
         {None, InvalidCodeText, ExpiredText, InvalidPasswordText,
          TimeoutText} \cup ExcTexts
    /\ apc \in AuthPcs
    /\ waitKey \in Keys \cup {None}
    /\ value \in Values \cup {None}
    /\ submits \in 0..MaxSubmits
    /\ stray \in BOOLEAN
    /\ owed \subseteq Keys

\* ------------------------------------------------- storage._get_lock
\* The threads of the process that call storage.py: the web server's
\* request threads and the worker threads of asyncio.to_thread.  Each runs
\* `with _get_lock(sid):` : _get_lock under _locks_lock, then the acquire
\* of the lock it was given, the locked section, the release.
LockPcs == {"idle", "evicting", "obtained", "section"}

\* lock.locked(): some thread has acquired the lock and not released it
Locked(id) == \E t \in Threads : lpc[t] = "section" /\ lref[t] = id

RegKeys(reg) == {reg[i].key : i \in 1..Len(reg)}
LockOf(reg, k) == (CHOOSE i \in 1..Len(reg) : reg[i].key = k)

\* _locks.pop(sender_id)  /  del _locks[oldest_key]
Without(reg, k) ==
    LET i == LockOf(reg, k) IN
    SubSeq(reg, 1, i - 1) \o SubSeq(reg, i + 1, Len(reg))

\* while len(_locks) >= MAX_LOCKS:
\*     oldest_key = next(iter(_locks)); lock = _locks[oldest_key]
\*     if not lock.locked(): (delete it)  else: break
\* The key the loop is about to delete, 0 when the loop ends.
Evictable(reg) ==
    IF Len(reg) >= MaxLocks /\ ~Locked(reg[1].id) THEN reg[1].key ELSE 0

\* One turn of the loop of _get_lock for thread t and a key not in the
\* registry: either the oldest entry was found unlocked and is about to be
\* deleted, or the loop is over and the new lock is stored and returned.
LoopTurn(t, reg, k, id) ==
    LET v == IF Len(reg) >= MaxLocks THEN Evictable(reg) ELSE 0 IN
    IF v # 0
    THEN /\ locks' = reg
         /\ victim' = v
         /\ lpc' = [lpc EXCEPT ![t] = "evicting"]
    ELSE /\ locks' = Append(reg, [key |-> k, id |-> id])
         /\ victim' = 0
         /\ lpc' = [lpc EXCEPT ![t] = "obtained"]

\* _get_lock(sid) is entered: _locks_lock is free (no eviction of another
\* thread is in progress).  A registered key is moved to the end and its
\* lock returned; else the eviction loop starts.
GetLock(t, k) ==
    /\ lpc[t] = "idle"
    /\ victim = 0
    /\ calls < MaxCalls
    /\ calls' = calls + 1
    /\ lkey' = [lkey EXCEPT ![t] = k]
    /\ IF k \in RegKeys(locks)
       THEN LET e == locks[LockOf(locks, k)] IN
            /\ locks' = Append(Without(locks, k), e)
            /\ lref' = [lref EXCEPT ![t] = e.id]
            /\ lpc' = [lpc EXCEPT ![t] = "obtained"]
            /\ UNCHANGED victim
       ELSE /\ lref' = [lref EXCEPT ![t] = calls + 1]
            /\ LoopTurn(t, locks, k, calls + 1)
    /\ UNCHANGED <<ovars, avars, xvars, rvars, cvars, fvars>>

\* del _locks[oldest_key], and the next turn of the loop
EvictDel(t) ==
    /\ lpc[t] = "evicting"
    /\ LoopTurn(t, Without(locks, victim), lkey[t], lref[t])
    /\ UNCHANGED <<ovars, avars, xvars, rvars, cvars, fvars, lkey, lref,
                   calls>>

\* with lock: __enter__ acquires the lock once no thread holds it
Acquire(t) ==
    /\ lpc[t] = "obtained"
    /\ ~Locked(lref[t])
    /\ lpc' = [lpc EXCEPT ![t] = "section"]
    /\ UNCHANGED <<ovars, avars, xvars, rvars, cvars, fvars,
                   locks, lkey, lref, victim,
                   calls>>

\* Variant: the body of the with block calls a storage function of the same
\* sender, whose own `with _get_lock(sid):` waits for the lock to be free.
ReleaseAfterNestedCall(t) ==
    /\ lpc[t] = "section"
    /\ ~Locked(lref[t])
    /\ lpc' = [lpc EXCEPT ![t] = "idle"]
    /\ lkey' = [lkey EXCEPT ![t] = 0]
    /\ lref' = [lref EXCEPT ![t] = 0]
    /\ UNCHANGED <<ovars, avars, xvars, rvars, cvars, fvars, locks, victim,
                   calls>>

\* with lock: __exit__ releases it; the storage call returns
Release(t) ==
    /\ lpc[t] = "section"
    /\ lpc' = [lpc EXCEPT ![t] = "idle"]
    /\ lkey' = [lkey EXCEPT ![t] = 0]
    /\ lref' = [lref EXCEPT ![t] = 0]
    /\ UNCHANGED <<ovars, avars, xvars, rvars, cvars, fvars, locks, victim,
                   calls>>

LockNext ==
    \E t \in Threads :
       \/ \E k \in SenderKeys : GetLock(t, k)
       \/ EvictDel(t)
       \/ Acquire(t)
       \/ Release(t)

LockInit ==
    /\ NoTraffic /\ Authenticated /\ NoLocks /\ NoCalls /\ NoWorkers
    /\ WebIdle /\ BotIdle

LockSpec == LockInit /\ [][LockNext]_vars

\* The step thread t is about to take, once it has entered _get_lock.
ThreadStep(t) == EvictDel(t) \/ Acquire(t) \/ Release(t)

\* Every thread is scheduled: a thread inside _get_lock or inside the with
\* block goes on, and a thread waiting for a sender's lock gets it once the
\* lock stays free.
FairLockSpec == LockSpec /\ \A t \in Threads : WF_vars(ThreadStep(t))

LockTypeOK ==
    /\ lpc \in [Threads -> LockPcs]
    /\ lkey \in [Threads -> SenderKeys \cup {0}]
    /\ lref \in [Threads -> 0..MaxCalls]
    /\ victim \in SenderKeys \cup {0}
    /\ calls \in 0..MaxCalls
    /\ \A i, j \in 1..Len(locks) : locks[i].key = locks[j].key => i = j

\* ------------------------------------- storage.py, one call at a time
\* The calls of storage.py on one sender's record, each run from its entry
\* to its return with no other thread in between.

\* if _parse_timestamp(msg['timestamp']) > cutoff_date, with
\* cutoff_date = datetime.now(timezone.utc) - timedelta(days=7)
InWindow(e, t) == e.ts > t - RetentionDays

RECURSIVE Filtered(_, _)
Filtered(msgs, t) ==
    IF msgs = <<>> THEN <<>>
    ELSE LET rest == Filtered(SubSeq(msgs, 1, Len(msgs) - 1), t)
             e == msgs[Len(msgs)] IN
         IF InWindow(e, t) THEN Append(rest, e) ELSE rest

\* Variant: the pruned list is written back on every load.
NeedsSaveAlways(msgs, filtered) == TRUE

\* if len(filtered) < len(messages): _save_sender_messages(...)
NeedsSave(msgs, filtered) == Len(filtered) < Len(msgs)

\* Variant: the batch is appended and the list is saved unsorted.
merge_unsorted(existing, batch) == existing \o batch

\* existing.extend(messages); existing.sort(key=... msg['timestamp'])
merge(existing, batch) == import_messages(existing, batch)

\* records a sender's file can hold: entries of the given days, numbered
\* in file order
Numbered(days, src) ==
    [i \in 1..Len(days) |->
       Entry("received", IF src = "local" THEN i ELSE 0, days[i], FALSE, src)]

DaySeqs(n) == UNION {[1..k -> Stamps] : k \in 0..n}

\* _load_sender_messages(sid) at clock t
Load ==
    /\ ~torn
    /\ LET filtered == Filtered(file, clock) IN
       /\ out' = filtered
       /\ saved' = NeedsSave(file, filtered)
       /\ file' = IF saved' THEN filtered ELSE file
    /\ call' = [NoCall EXCEPT
                  !.op = "load",
                  !.nth = IF call.op = "load" THEN 2 ELSE 1,
                  !.pruned = IF call.op = "load" THEN call.pruned ELSE saved']
    /\ UNCHANGED <<ovars, avars, xvars, lvars, fvars, torn, clock>>

\* get_messages_by_sender(sid, limit)
Recent ==
    /\ ~torn
    /\ \E limit \in 0..(MaxLen + 1) :
         LET filtered == Filtered(file, clock) IN
         /\ out' = LastN(filtered, limit)
         /\ saved' = NeedsSave(file, filtered)
         /\ file' = IF saved' THEN filtered ELSE file
         /\ call' = [NoCall EXCEPT !.op = "recent", !.limit = limit]
    /\ UNCHANGED <<ovars, avars, xvars, lvars, fvars, torn, clock>>

\* import_messages(sid, messages)
Import ==
    /\ ~torn
    /\ Len(file) <= MaxLen
    /\ \E days \in DaySeqs(MaxLen) :
         LET batch == Numbered(days, "platform") IN
         /\ file' = merge(Filtered(file, clock), batch)
         /\ call' = [NoCall EXCEPT !.op = "import", !.batch = batch]
    /\ out' = <<>>
    /\ saved' = TRUE
    /\ UNCHANGED <<ovars, avars, xvars, lvars, fvars, torn, clock>>

\* a day passes
Tick ==
    /\ clock < MaxClock
    /\ clock' = clock + 1
    /\ call' = NoCall
    /\ UNCHANGED <<ovars, avars, xvars, lvars, fvars, file, torn, out, saved>>

RecNext == Load \/ Recent \/ Import \/ Tick

\* a record written on earlier days, in any order of its timestamps
RecInit ==
    /\ NoTraffic /\ Authenticated /\ NoLocks /\ NoWorkers /\ WebIdle
    /\ BotIdle
    /\ \E days \in DaySeqs(MaxLen) : file = Numbered(days, "local")
    /\ torn = FALSE
    /\ clock = RetentionDays + 1
    /\ out = <<>>
    /\ saved = FALSE
    /\ call = NoCall

RecSpec == RecInit /\ [][RecNext]_vars

RecTypeOK ==
    /\ clock \in Clocks
    /\ torn \in BOOLEAN
    /\ saved \in BOOLEAN
    /\ call.op \in {"none", "load", "recent", "import"}
    /\ Len(file) <= 2 * MaxLen

\* ------------------------------- storage.py, threads on one record
\* The storage calls of concurrent threads on the record of one sender:
\* add_message, import_messages and get_messages_by_sender under the
\* sender's lock, load_messages (GET /api/messages) without it.  The lock
\* is taken here as one mutex that every thread is given.
FilePcs == {"idle", "locking", "reading", "pruneOpen", "pruneDump",
            "saveOpen", "saveDump", "unlock", "done", "decodeError",
            "writeError"}
FileOps == {"add", "import", "recent", "all"}

\* what the call does with the list it loaded
Modified(op, loaded, m) ==
    IF op = "add" THEN loaded \o m
    ELSE IF op = "import" THEN merge(loaded, m)
    ELSE loaded

\* where the call goes once _load_sender_messages has returned
AfterLoad(op) ==
    IF op \in {"add", "import"} THEN "saveOpen"
    ELSE IF op = "recent" THEN "unlock"
    ELSE "done"

\* the with block is left, normally or by an exception
Unlocked(t) == IF holder = t THEN 0 ELSE holder

\* A storage call starts.  add_message builds its message dict, with
\* datetime.now() as timestamp, before it asks for the lock.
Begin(t) ==
    /\ fpc[t] = "idle"
    /\ ops < MaxOps
    /\ ops' = ops + 1
    /\ \E op \in FileOps :
         /\ fop' = [fop EXCEPT ![t] = op]
         /\ msg' = [msg EXCEPT ![t] =
               IF op = "add"
               THEN <<Entry("received", ops + 1, clock, FALSE, "local")>>
               ELSE IF op = "import"
               THEN <<Entry("received", 0, clock - 2, FALSE, "platform")>>
               ELSE <<>>]
         /\ fpc' = [fpc EXCEPT
                      ![t] = IF op = "all" THEN "reading" ELSE "locking"]
    /\ UNCHANGED <<ovars, avars, xvars, lvars, rvars, cvars, buf, holder,
                   acked>>

\* with _get_lock(sid): the lock is acquired once it is free
Lock(t) ==
    /\ fpc[t] = "locking"
    /\ holder = 0
    /\ holder' = t
    /\ fpc' = [fpc EXCEPT ![t] = "reading"]
    /\ UNCHANGED <<ovars, avars, xvars, lvars, rvars, cvars, fop, buf, msg,
                   acked, ops>>

\* _load_sender_messages: open, json.load (JSONDecodeError on a text that
\* is not complete), the retention filter
Read(t) ==
    /\ fpc[t] = "reading"
    /\ IF torn
       THEN /\ fpc' = [fpc EXCEPT ![t] = "decodeError"]
            /\ holder' = Unlocked(t)
            /\ UNCHANGED buf
       ELSE LET filtered == Filtered(file, clock) IN
            /\ UNCHANGED holder
            /\ IF NeedsSave(file, filtered)
               THEN /\ buf' = [buf EXCEPT ![t] = filtered]
                    /\ fpc' = [fpc EXCEPT ![t] = "pruneOpen"]
               ELSE /\ buf' = [buf EXCEPT
                                 ![t] = Modified(fop[t], filtered, msg[t])]
                    /\ fpc' = [fpc EXCEPT ![t] = AfterLoad(fop[t])]
    /\ UNCHANGED <<ovars, avars, xvars, lvars, rvars, cvars, fop, msg, acked,
                   ops>>

\* _save_sender_messages(sid, filtered) from _load_sender_messages:
\* os.remove for an empty list, else open(filepath, 'w') truncates the file
PruneOpen(t) ==
    /\ fpc[t] = "pruneOpen"
    /\ file' = <<>>
    /\ IF buf[t] = <<>>
       THEN /\ torn' = FALSE
            /\ buf' = [buf EXCEPT ![t] = Modified(fop[t], <<>>, msg[t])]
            /\ fpc' = [fpc EXCEPT ![t] = AfterLoad(fop[t])]
       ELSE /\ torn' = TRUE
            /\ fpc' = [fpc EXCEPT ![t] = "pruneDump"]
            /\ UNCHANGED buf
    /\ UNCHANGED <<ovars, avars, xvars, lvars, clock, cvars, fop, msg, holder,
                   acked, ops>>

\* json.dump(filtered, f) completes and the file is closed
PruneDump(t) ==
    /\ fpc[t] = "pruneDump"
    /\ file' = buf[t]
    /\ torn' = FALSE
    /\ buf' = [buf EXCEPT ![t] = Modified(fop[t], buf[t], msg[t])]
    /\ fpc' = [fpc EXCEPT ![t] = AfterLoad(fop[t])]
    /\ UNCHANGED <<ovars, avars, xvars, lvars, clock, cvars, fop, msg, holder,
                   acked, ops>>

\* _save_sender_messages(sid, messages) of add_message / import_messages
SaveOpen(t) ==
    /\ fpc[t] = "saveOpen"
    /\ file' = <<>>
    /\ IF buf[t] = <<>>
       THEN torn' = FALSE /\ fpc' = [fpc EXCEPT ![t] = "unlock"]
       ELSE torn' = TRUE /\ fpc' = [fpc EXCEPT ![t] = "saveDump"]
    /\ UNCHANGED <<ovars, avars, xvars, lvars, clock, cvars, fop, buf, msg,
                   holder, acked, ops>>

\* json.dump(messages, f) completes and the file is closed
SaveDump(t) ==
    /\ fpc[t] = "saveDump"
    /\ file' = buf[t]
    /\ torn' = FALSE
    /\ fpc' = [fpc EXCEPT ![t] = "unlock"]
    /\ UNCHANGED <<ovars, avars, xvars, lvars, clock, cvars, fop, buf, msg,
                   holder, acked, ops>>

\* json.dump raises OSError midway (disk full, I/O error): the exception
\* leaves the call, the file keeps what was written of it
DumpFail(t) ==
    /\ fpc[t] \in {"pruneDump", "saveDump"}
    /\ fpc' = [fpc EXCEPT ![t] = "writeError"]
    /\ holder' = Unlocked(t)
    /\ UNCHANGED <<ovars, avars, xvars, lvars, rvars, cvars, fop, buf, msg,
                   acked, ops>>

\* the with block ends; add_message returns its message
Unlock(t) ==
    /\ fpc[t] = "unlock"
    /\ holder' = 0
    /\ fpc' = [fpc EXCEPT ![t] = "done"]
    /\ acked' = IF fop[t] = "add" THEN acked \cup {msg[t][1]} ELSE acked
    /\ UNCHANGED <<ovars, avars, xvars, lvars, rvars, cvars, fop, buf, msg,
                   ops>>

\* the caller has the result or the exception; the thread is free again
Return(t) ==
    /\ fpc[t] \in {"done", "decodeError", "writeError"}
    /\ fpc' = [fpc EXCEPT ![t] = "idle"]
    /\ fop' = [fop EXCEPT ![t] = "none"]
    /\ buf' = [buf EXCEPT ![t] = <<>>]
    /\ msg' = [msg EXCEPT ![t] = <<>>]
    /\ UNCHANGED <<ovars, avars, xvars, lvars, rvars, cvars, holder, acked,
                   ops>>

FileNext ==
    \/ \E t \in Workers :
          \/ Begin(t)
          \/ Lock(t)
          \/ Read(t)
          \/ PruneOpen(t)
          \/ PruneDump(t)
          \/ SaveOpen(t)
          \/ SaveDump(t)
          \/ DumpFail(t)
          \/ Unlock(t)
          \/ Return(t)
    \/ Tick

\* a record in timestamp order whose oldest entry has just left the
\* retention window
FileInit ==
    /\ NoTraffic /\ Authenticated /\ NoLocks /\ NoWorkers /\ WebIdle
    /\ BotIdle
    /\ clock = RetentionDays + 1
    /\ file = <<Entry("received", 0, clock - RetentionDays, FALSE,
                      "platform"),
                Entry("received", 0, clock - 1, FALSE, "platform")>>
    /\ torn = FALSE
    /\ out = <<>>
    /\ saved = FALSE
    /\ call = NoCall

FileSpec == FileInit /\ [][FileNext]_vars

FileTypeOK ==
    /\ fpc \in [Workers -> FilePcs]
    /\ fop \in [Workers -> FileOps \cup {"none"}]
    /\ holder \in Workers \cup {0}
    /\ ops \in 0..MaxOps
    /\ torn => file = <<>>

\* ------------------------------------------------------- web.py, requests
\* The requests of the control surface: the before_request functions in the
\* order of their registration, then the route.  A route is "auth" (POST
\* /api/auth/code, /api/auth/password), "api" (GET /api/config and the
\* other /api/ routes) or "page" (GET /).
Routes == {"auth", "api", "page"}

\* check_content_type: 415 for a POST to /api/ that is not json, else None
check_content_type(route, json) ==
    IF route = "auth" /\ ~json THEN 415 ELSE 0

\* check_auth_token: 401 for /api/ without the token when WEB_TOKEN is set
check_auth_token(route, token) ==
    IF route # "page" /\ ~token THEN 401 ELSE 0

\* submit_auth_code / submit_auth_password: 400 without a code, else the
\* submission is handed to bot.submit_auth_* and 200; get_config, index: 200
route_status(route, body) ==
    IF route = "auth" /\ ~body THEN 400 ELSE 200

\* the requests of the key that arrived within the last minute
InLastMinute(times, t) ==
    SelectSeq(times, LAMBDA x : x > t - RateWindow)

\* One request of client c is answered.
Request(c, route) ==
    /\ resp.n < MaxRequests
    /\ \E json, token, body \in BOOLEAN :
         LET checked ==
               IF check_content_type(route, json) # 0
               THEN check_content_type(route, json)
               ELSE check_auth_token(route, token)
             k == IF route = "page" \/ checked # 0 THEN NoKey
                  ELSE <<route, c>>
         IN /\ resp' = [n |-> resp.n + 1, key |-> k,
                        status |-> IF checked # 0 THEN checked
                                   ELSE route_status(route, body)]
            /\ hits' = IF k = NoKey THEN hits
                       ELSE [hits EXCEPT
                               ![k] = Append(InLastMinute(@, wnow), wnow)]
    /\ UNCHANGED wnow
    /\ UNCHANGED <<ovars, avars, lvars, rvars, cvars, fvars, bvars>>

\* half a minute passes
WebTick ==
    /\ wnow < MaxTicks * (RateWindow \div 2)
    /\ wnow' = wnow + RateWindow \div 2
    /\ UNCHANGED <<hits, resp>>
    /\ UNCHANGED <<ovars, avars, lvars, rvars, cvars, fvars, bvars>>

WebNext ==
    \/ \E c \in Clients, route \in Routes : Request(c, route)
    \/ WebTick

WebInit ==
    /\ NoTraffic /\ Authenticated /\ NoLocks /\ NoCalls /\ NoWorkers
    /\ NoRequests /\ BotIdle

WebSpec == WebInit /\ [][WebNext]_vars

\* ------------------------------------ _generate_response, the two delays
\* What _respond_to_sender and _delayed_read_receipt compute from msg_cfg.
\* A text is one of the strings below.  A configured delay is missing,
\* null, a text that is no number, the text "nan", an integer beyond the
\* range of a float, or a number of seconds.
Texts == {"", " ", "hi", " hi "}
strip(t) == IF t = " " THEN "" ELSE IF t = " hi " THEN "hi" ELSE t

DefaultReply == "I will get back to you shortly. Please wait a moment."

\* what client.chat.completions.create answers: it raises, or the content of
\* the first choice is None or a text
Backends == {"raises", None} \cup Texts

\* ai.generate_response(chat_messages, api_key, model)
generate_response(key, backend) ==
    IF key = "" THEN None
    ELSE IF backend = "raises" THEN None
    ELSE IF backend \in {None, ""} THEN None
    ELSE strip(backend)

\* msg_cfg.get(name, default)
get(configured, default) ==
    IF configured = "missing" THEN default ELSE configured

\* Variant: the response is returned without `if response:`
generate_unchecked(cfg, backend) ==
    IF get(cfg.key, "") # ""
    THEN generate_response(get(cfg.key, ""), backend)
    ELSE get(cfg.message, DefaultReply)

\* bot._generate_response(sender_name, messages, profile, prompt, msg_cfg)
generate(cfg, backend) ==
    LET openai_key == get(cfg.key, "")
        response == generate_response(openai_key, backend)
    IN IF openai_key # "" /\ response \notin {None, ""}
       THEN response
       ELSE get(cfg.message, DefaultReply)

Num(n) == [kind |-> "number", n |-> n]
Odd(kind) == [kind |-> kind, n |-> 0]
Seconds == {Num(n) : n \in 0..MaxDelay}
DelayValues ==
    {Odd(k) : k \in {"missing", "null", "text", "nan", "huge"}}
    \cup Seconds

\* float(x): the number for a number, NaN for "nan", OverflowError for an
\* integer too large, TypeError or ValueError for None and other texts
float(x) ==
    IF x \in Seconds THEN x
    ELSE IF x.kind = "nan" THEN Odd("NaN")
    ELSE IF x.kind = "huge" THEN Odd("OverflowError")
    ELSE Odd("ValueError")

\* try: float(msg_cfg.get(name, default))
\* except (TypeError, ValueError): default
parsed(x, default) ==
    LET v == float(IF x.kind = "missing" THEN Num(default) ELSE x)
    IN IF v.kind = "ValueError" THEN Num(default) ELSE v

\* a > b of two floats: False when either is NaN
Greater(a, b) == a \in Seconds /\ b \in Seconds /\ a.n > b.n

\* bot.py:340-350 and 297-306: the range the delay is drawn from, or the
\* exception that leaves the function
delay_range(lo, hi) ==
    LET dmin == parsed(lo, DEFAULT_DELAY_MIN)
        dmax == parsed(hi, DEFAULT_DELAY_MAX)
    IN IF dmin.kind = "OverflowError" \/ dmax.kind = "OverflowError"
       THEN [done |-> TRUE, raised |-> TRUE]
       ELSE IF Greater(dmin, dmax)
       THEN [done |-> TRUE, raised |-> FALSE, min |-> dmax, max |-> dmin]
       ELSE [done |-> TRUE, raised |-> FALSE, min |-> dmin, max |-> dmax]

GenerateArgs ==
    {[fn |-> "generate", cfg |-> [key |-> k, message |-> text],
      backend |-> b] :
       k \in {"missing", "", "sk-test"},
       text \in {"missing", "", "I am away"},
       b \in Backends}
DelayArgs ==
    {[fn |-> f, min |-> lo, max |-> hi] :
       f \in {"RESPONSE_DELAY", "READ_RECEIPT_DELAY"},
       lo \in DelayValues, hi \in DelayValues}
Pending == [done |-> FALSE]

\* _generate_response returns
Generate ==
    /\ arg.fn = "generate"
    /\ ret = Pending
    /\ ret' = [done |-> TRUE, text |-> generate(arg.cfg, arg.backend)]
    /\ UNCHANGED <<ovars, avars, lvars, rvars, cvars, fvars, wvars, rpc, arg>>

\* the delay's range is computed
ParseDelay ==
    /\ arg.fn \in {"RESPONSE_DELAY", "READ_RECEIPT_DELAY"}
    /\ ret = Pending
    /\ ret' = delay_range(arg.min, arg.max)
    /\ UNCHANGED <<ovars, avars, lvars, rvars, cvars, fvars, wvars, rpc, arg>>

ConfigNext == Generate \/ ParseDelay

ConfigInit ==
    /\ NoTraffic /\ Authenticated /\ StorageIdle /\ WebIdle
    /\ rpc = <<>>
    /\ arg \in GenerateArgs \cup DelayArgs
    /\ ret = Pending

ConfigSpec == ConfigInit /\ [][ConfigNext]_vars

\* ================================================================ claims
IsInbound(m) ==
    hpc[m] \in {"store", "checkSync", "fetch", "import", "mark", "build",
                "await", "done", "raised"}
\* the inbound private messages of sender s handled so far
InboundOf(s) == {m \in Msgs : sender[m] = s /\ IsInbound(m)}
\* the tasks whose reply reached sender s
RepliesTo(s) == {t \in Msgs : sender[t] = s /\ delivered[t]}
\* the inbound messages present in a loaded history
ReceivedIn(h) ==
    {h[i].id : i \in {j \in 1..Len(h) :
                        h[j].dir = "received" /\ h[j].src = "local"}}
\* the sender's record holds the 'sent' record of the reply of task m
HasSentRecord(m) ==
    \E i \in 1..Len(record[sender[m]]) :
       LET e == record[sender[m]][i] IN
       e.dir = "sent" /\ e.src = "reply" /\ e.id = m

\* all messages of s so far arrived before any reply to s was sent
OneBurst(s) ==
    /\ InboundOf(s) # {}
    /\ \A m \in InboundOf(s) : ~afterReply[m]
\* every handler of s has returned
Quiet(s) == \A m \in InboundOf(s) : hpc[m] \in {"done", "raised"}
NoSendFailed(s) == \A m \in InboundOf(s) : tpc[m] # "failed"
\* at most one reply, and once all handlers returned exactly one, made from
\* a history with all messages of the burst
OneReplyFromAll(s) ==
    /\ Cardinality(RepliesTo(s)) <= 1
    /\ Quiet(s) =>
         \E t \in RepliesTo(s) :
            /\ RepliesTo(s) = {t}
            /\ \/ InboundOf(s) \subseteq ReceivedIn(replyHist[t])
               \/ Len(replyHist[t]) = HistoryLimit

\* no task of s was cancelled once its send step had begun
NoLateCancel(s) ==
    \A t \in TasksOf(s) : tpc[t] = "cancelled" => t \in earlyCancel

C2_OneLiveTask ==
    \A s \in Senders :
       /\ Cardinality({t \in TasksOf(s) : tpc[t] \in TaskLive}) <= 1
       /\ Cardinality({t \in TasksOf(s) : tpc[t] = "sending"}) <= 1
       /\ \A t \in TasksOf(s) : tpc[t] \in TaskLive => pending[s] = t

C2_Witness ==
    \E s \in Senders : \E t, u \in TasksOf(s) :
       /\ t # u
       /\ tpc[t] = "cancelled"
       /\ tpc[u] = "sending"

\* C3 as stated: once the reply of a task has been delivered and the task
\* has ended (finished or cancelled) with no write of its record left with
\* a worker thread, the sender's record holds the matching 'sent' record.
C3_Claim ==
    \A m \in Msgs :
       delivered[m] /\ tpc[m] \in TaskFinished /\ m \notin writing
          => HasSentRecord(m)

\* C4: a task cancelled before its send step began (while loading, while
\* generating, during the delay) delivers no reply and writes no 'sent'
\* record.
C4_EarlyCancelSilent ==
    \A m \in earlyCancel : ~delivered[m] /\ ~HasSentRecord(m) /\ ~written[m]

C4_Witness ==
    \E m \in earlyCancel :
       /\ tpc[m] = "cancelled"
       /\ hpc[m] = "done"
       /\ \E u \in TasksOf(sender[m]) : u # m /\ HasSentRecord(u)

TaskChain ==
    { <<"none", "created">>, <<"created", "generating">>,
      <<"generating", "waiting">>, <<"waiting", "sending">>,
      <<"sending", "recording">>, <<"recording", "profile">>,
      <<"recording", "done">>, <<"profile", "done">> }

\* C6 as stated: a task moves only along the chain (or ends with the error
\* of a failed send); it is cancelled only before its send step has
\* started or after its reply has been recorded as sent.
C6_Claim ==
    [][ \A m \in Msgs :
          tpc'[m] # tpc[m] =>
             \/ <<tpc[m], tpc'[m]>> \in TaskChain
             \/ tpc[m] = "sending" /\ tpc'[m] = "failed"
             \/ /\ tpc'[m] = "cancelled"
                /\ \/ tpc[m] \in {"created", "generating", "waiting"}
                   \/ tpc[m] = "recording" /\ written[m]
                   \/ tpc[m] = "profile" ]_vars

\* C7: a sender's entry leaves the pending-task map only through the
\* cleanup of the handler whose task the entry is; the cleanup of any
\* other handler leaves it in place.
C7_CleanupOwnEntry ==
    [][ \A s \in Senders :
          pending[s] # NoTask /\ pending'[s] # pending[s] =>
             \/ pending'[s] # NoTask /\ tpc[pending'[s]] = "none"
             \/ /\ pending'[s] = NoTask
                /\ tpc[pending[s]] \in TaskFinished
                /\ hpc[pending[s]] = "await"
                /\ hpc'[pending[s]] \in {"done", "raised"} ]_vars

C7_Witness ==
    \E s \in Senders : \E m \in TasksOf(s) :
       /\ pending[s] \notin {NoTask, m}
       /\ tpc[pending[s]] \in TaskLive
       /\ tpc[m] = "cancelled"
       /\ hpc[m] = "done"

\* C8 as stated: a task of the peer that was still before its send step
\* when the operator's message went out has been cancelled and never
\* delivers its reply.
C8_Claim ==
    \A t \in preempted : tpc[t] = "cancelled" /\ ~delivered[t]

\* the received messages of a history that are newer than its last 'sent'
\* record
LastSent(h) ==
    LET S == {i \in 1..Len(h) : h[i].dir = "sent"} IN
    IF S = {} THEN 0 ELSE CHOOSE i \in S : \A j \in S : j <= i
BurstNonTrivial(h) ==
    \E i \in (LastSent(h) + 1)..Len(h) : h[i].dir = "received" /\ ~h[i].triv

\* C9 as stated: after the reply is recorded, the profile update is
\* started exactly when some received message newer than the last earlier
\* 'sent' record is non-trivial, and it is given the history plus the
\* reply.
C9_Claim ==
    [][ \A m \in Msgs :
          tpc[m] = "recording" /\ tpc'[m] \in {"profile", "done"} =>
             /\ (tpc'[m] = "profile") <=> BurstNonTrivial(hist[m])
             /\ tpc'[m] = "profile" =>
                  updMsgs'[m] = Append(hist[m], ReplyOf(m)) ]_vars

\* C10 as stated: while the history-sync marker of a sender is set, no
\* initial profile build for that sender is still to run or running.
C10_Claim ==
    \A m \in Msgs :
       IsInbound(m) /\ synced[sender[m]] => hpc[m] # "build"

\* the entries of the record of s that came from the platform history
Backfilled(s) ==
    {i \in 1..Len(record[s]) : record[s][i].src = "platform"}

\* C11 as stated: the platform history of a sender is imported into the
\* sender's record at most once, also while several messages of the sender
\* are handled at the same time before the marker is set.
C11_Claim ==
    \A s \in Senders : Cardinality(Backfilled(s)) <= 1

\* C12 as stated: when storing the inbound message has failed and its
\* handler has returned, the failure was not what ended the handler: a
\* Phase B task was created for the message.
C12_Claim ==
    \A m \in Msgs :
       sender[m] # 0 /\ hpc[m] \in HandlerReturned \ {"webDone"}
          => tpc[m] # "none"

\* C13 as stated: every inbound private message with a body that entered
\* Phase A eventually has completed Phase A (the message is in the sender's
\* record, the history sync is decided) and has its Phase B task created.
C13_Claim ==
    \A m \in Msgs :
       (hpc[m] = "store") ~>
          (/\ tpc[m] # "none"
           /\ \E i \in 1..Len(record[sender[m]]) :
                 LET e == record[sender[m]][i] IN
                 e.dir = "received" /\ e.src = "local" /\ e.id = m)

\* the edges of AuthState.status named by the claim
AuthEdges ==
    { <<"disconnected", "authorized">>, <<"disconnected", "waiting_code">>,
      <<"disconnected", "error">>, <<"waiting_code", "waiting_code">>,
      <<"waiting_code", "waiting_password">>,
      <<"waiting_code", "authorized">>, <<"waiting_code", "error">>,
      <<"waiting_password", "waiting_password">>,
      <<"waiting_password", "authorized">>, <<"waiting_password", "error">> }

\* C14: every step that changes AuthState.status follows one of the ten
\* edges; no step changes the status once it is authorized or error.
C14_StatusEdges ==
    [][ auth_state'.status # auth_state.status =>
          <<auth_state.status, auth_state'.status>> \in AuthEdges ]_vars

\* a run through waiting_code (twice), waiting_password and authorized
C14_Witness ==
    /\ auth_state.status = "authorized"
    /\ \E i, j \in 1..Len(log) :
          i < j /\ log[i] = "invalid" /\ log[j] = "needPassword"

\* the transport's answer in this step, if the step got one
Answered(entries) ==
    /\ Len(log') = Len(log) + 1
    /\ log'[Len(log')] \in entries

\* C15: when sign-in rejects the code (invalid) or the password (wrong),
\* the status stays the waiting state it was, the error is set to a
\* non-empty text, and the handshake enters the wait for the same input
\* again; nothing in this depends on how many rejections came before.
C15_RejectionStaysWaiting ==
    [][ Answered({"invalid", "wrongPassword"}) =>
          /\ auth_state.status =
                (IF waitKey = "code" THEN "waiting_code"
                 ELSE "waiting_password")
          /\ auth_state'.status = auth_state.status
          /\ auth_state'.error \notin {None, ""}
          /\ apc' = "clear"
          /\ waitKey' = waitKey ]_vars

\* three rejected codes in a row, the handshake waiting for a fourth
C15_Witness ==
    /\ log = <<"unauthorized", "codeSent", "invalid", "invalid", "invalid">>
    /\ auth_state = [status |-> "waiting_code", error |-> InvalidCodeText]
    /\ apc = "wait"

\* C16: when sign-in reports the code as expired the handshake asks for a
\* new code; when that request returns, the status is still waiting_code,
\* the error is the 'expired, resent' note and the handshake enters the
\* wait for a code again; when it raises, the status becomes error and
\* the handshake has ended.
C16_ExpiredResent ==
    [][ /\ Answered({"expired"}) =>
             /\ apc' = "resend"
             /\ auth_state'.status = "waiting_code"
        /\ Answered({"resent"}) =>
             /\ apc = "resend"
             /\ auth_state' = [status |-> "waiting_code",
                               error |-> ExpiredText]
             /\ apc' = "clear"
             /\ waitKey' = "code"
        /\ Answered({"resendFailed"}) =>
             /\ apc = "resend"
             /\ auth_state'.status = "error"
             /\ apc' = "stopped" ]_vars

\* the code expired, a new one was sent, the handshake waits for it
C16_Witness ==
    /\ Len(log) >= 2
    /\ log[Len(log) - 1] = "expired"
    /\ log[Len(log)] = "resent"
    /\ auth_state = [status |-> "waiting_code", error |-> ExpiredText]
    /\ apc = "wait"

\* C17: when sign-in with a code answers that a second factor is needed,
\* the status becomes waiting_password with no error and the handshake
\* waits for the password; an accepted password moves the status from
\* waiting_password to authorized; the status becomes authorized only in
\* a step in which a sign-in succeeded or the transport reported the
\* session as already authorized.
C17_SecondFactor ==
    [][ /\ Answered({"needPassword"}) =>
             /\ auth_state' = [status |-> "waiting_password",
                               error |-> None]
             /\ apc' = "clear"
             /\ waitKey' = "password"
        /\ Answered({"passwordOk"}) =>
             /\ auth_state.status = "waiting_password"
             /\ auth_state'.status = "authorized"
        /\ (auth_state'.status = "authorized"
               /\ auth_state.status # "authorized") =>
             Answered({"authorized", "ok", "passwordOk"}) ]_vars

\* a rejected code, then the second factor asked for and accepted
C17_Witness ==
    /\ log = <<"unauthorized", "codeSent", "invalid", "needPassword",
               "passwordOk">>
    /\ auth_state = [status |-> "authorized", error |-> None]

TimedOut(l) == \E i \in 1..Len(l) : l[i] = "timeout"

\* C18: when the wait for the code or for the password times out, the
\* status goes from its waiting state to error with a non-empty error
\* text and the handshake has ended; from then on the handshake stays
\* ended and the status stays error, whatever is submitted.
C18_TimeoutIsTerminal ==
    [][ /\ Answered({"timeout"}) =>
             /\ auth_state.status \in {"waiting_code", "waiting_password"}
             /\ auth_state'.status = "error"
             /\ auth_state'.error \notin {None, ""}
             /\ apc' = "stopped"
        /\ TimedOut(log) =>
             /\ auth_state'.status = "error"
             /\ apc' = "stopped" ]_vars

\* the password wait timed out and the operator submitted it afterwards
C18_Witness ==
    /\ Len(log) >= 2
    /\ log[Len(log) - 1] = "needPassword"
    /\ log[Len(log)] = "timeout"
    /\ auth_events["password"]
    /\ auth_state = [status |-> "error", error |-> TimeoutText]
    /\ apc = "stopped"

RequestFailed(l) == \E i \in 1..Len(l) : l[i] = "requestFailed"

\* C19: when the first request for a code raises, the status goes from
\* disconnected straight to error with the text of the exception as error
\* and the handshake has ended; from then on the handshake stays ended and
\* the status stays error.
C19_RequestFailureIsTerminal ==
    [][ /\ Answered({"requestFailed"}) =>
             /\ auth_state.status = "disconnected"
             /\ auth_state'.status = "error"
             /\ auth_state'.error \in ExcTexts
             /\ apc' = "stopped"
        /\ RequestFailed(log) =>
             /\ auth_state'.status = "error"
             /\ apc' = "stopped" ]_vars

\* the request failed and the operator submitted a code all the same
C19_Witness ==
    /\ log = <<"unauthorized", "requestFailed">>
    /\ auth_events["code"]
    /\ auth_state = [status |-> "error", error |-> "transport error"]
    /\ apc = "stopped"

\* C20 as stated, for the handshakes that got as far as a waiting state:
\* once the handshake has stopped without reaching authorized, the status
\* is error; it is not left at waiting_code or waiting_password.
C20_Claim ==
    apc = "stopped" /\ auth_state.status # "disconnected"
       => auth_state.status = "error"

\* C21 as stated: when every submit_auth_* call so far was made while a
\* wait for its key was pending, the value a wait returns to the sign-in
\* call is a submitted value, never the absent one.
C21_Claim ==
    ~stray /\ apc \in {"signIn", "signInPassword"} => value \in Values

\* C22 as stated: no two threads are inside the locked section of storage
\* operations for the same sender key at the same time.
C22_Claim ==
    \A t, u \in Threads :
       t # u /\ lpc[t] = "section" /\ lpc[u] = "section"
          => lkey[t] # lkey[u]

RegIds(reg) == {reg[i].id : i \in 1..Len(reg)}

\* C23 as stated: no step of _get_lock removes from the registry a mutex
\* that a thread holds at that moment.
C23_Claim ==
    [][\A id \in RegIds(locks) \ RegIds(locks') : ~Locked(id)]_vars

\* the least recently touched of the registered mutexes that are unlocked
OldestUnlocked(reg) ==
    reg[CHOOSE i \in 1..Len(reg) :
          /\ ~Locked(reg[i].id)
          /\ \A j \in 1..(i - 1) : Locked(reg[j].id)].key

\* C24 as stated: a _get_lock call for a new key that finds the registry
\* at its cap with some registered mutex unlocked does not return with the
\* least recently touched unlocked mutex still registered.
C24_Claim ==
    [][\A t \in Threads :
          /\ lpc[t] = "idle" /\ lpc'[t] = "obtained"
          /\ lkey'[t] \notin RegKeys(locks)
          /\ Len(locks) >= MaxLocks
          /\ \E i \in 1..Len(locks) : ~Locked(locks[i].id)
          => OldestUnlocked(locks) \notin RegKeys(locks')]_vars

IsSortedByTs(msgs) ==
    \A i, j \in 1..Len(msgs) : i < j => msgs[i].ts <= msgs[j].ts
Count(msgs, e) == Cardinality({i \in 1..Len(msgs) : msgs[i] = e})
Range(msgs) == {msgs[i] : i \in 1..Len(msgs)}
\* the same entries, each as many times
SameEntries(a, b) ==
    \A e \in Range(a) \cup Range(b) : Count(a, e) = Count(b, e)

\* C27: import_messages leaves the record holding exactly the entries of
\* the existing record that are inside the retention window plus the
\* entries of the batch (a repeated entry as often as it occurs), in
\* non-decreasing timestamp order, whatever the order of the batch.
C27_ImportSorted ==
    [][call'.op = "import" =>
         /\ IsSortedByTs(file')
         /\ SameEntries(file', Filtered(file, clock) \o call'.batch)]_vars

\* a batch in descending order was merged into a record, an entry of the
\* batch going before an entry the record already had
C27_Witness ==
    /\ call.op = "import"
    /\ Len(call.batch) = 2
    /\ call.batch[1].ts > call.batch[2].ts
    /\ Len(file) > 2
    /\ \E i, j \in 1..Len(file) :
          i < j /\ file[i].src = "platform" /\ file[j].src = "local"

Min(a, b) == IF a <= b THEN a ELSE b

\* C28 as stated: get_messages_by_sender(sid, limit) returns the last
\* min(limit, n) entries, oldest first, of the pruned record of n entries,
\* for every limit >= 0.
C28_Claim ==
    [][call'.op = "recent" =>
         LET f == Filtered(file, clock)
             k == Min(call'.limit, Len(f)) IN
         out' = SubSeq(f, Len(f) - k + 1, Len(f))]_vars

\* C29: a load returns the entries inside the retention window and leaves
\* exactly those on disk, rewriting the file when and only when an entry
\* was outside the window; a second load at the same clock value returns
\* the same entries and does not rewrite the file.
C29_PruneIdempotent ==
    [][call'.op = "load" =>
         /\ out' = Filtered(file, clock)
         /\ file' = Filtered(file, clock)
         /\ saved' <=> \E i \in 1..Len(file) : ~InWindow(file[i], clock)
         /\ call'.nth = 2 => out' = out /\ file' = file /\ ~saved']_vars

\* a second load right after a load that pruned entries and kept some
C29_Witness ==
    /\ call.op = "load"
    /\ call.nth = 2
    /\ call.pruned
    /\ ~saved
    /\ out # <<>>
    /\ out = file

\* C25 as stated: once no storage call is in progress, every message whose
\* add_message returned is in the sender's file, unless it has left the
\* retention window.
C25_Claim ==
    (\A t \in Workers : fpc[t] = "idle") /\ ~torn
       => \A e \in acked : e \in Range(file) \/ ~InWindow(e, clock)

\* C26 as stated: whenever the sender's file holds a complete record, its
\* entries are in non-decreasing timestamp order.
C26_Claim == ~torn => IsSortedByTs(file)

\* C30 as stated: no read of the sender's file finds a text that is not a
\* complete record.
C30_Claim == \A t \in Workers : fpc[t] # "decodeError"

\* C31: for one rate-limit key, of the requests made within one minute the
\* first `limit` are allowed and the next one is rejected (429); limit is 5
\* for the auth-submission endpoints and 30 for the other /api/ routes.
Limit(class) == IF class = "auth" THEN AuthLimit ELSE ApiLimit
C31_Claim ==
    [][\A k \in RateKeys :
         resp'.n # resp.n /\ resp'.key = k
         => (resp'.status = 429
             <=> Len(InLastMinute(hits[k], wnow)) >= Limit(k[1]))]_vars

\* C32: the read acknowledgement of a stored inbound message is a task of
\* its own: its end, a failure included, changes nothing of the handlers
\* and the Phase B tasks; no step of a Phase B task (its cancellation and
\* its failure included) touches the acknowledgement, which can still be
\* sent after it; and while the acknowledgement sleeps the handler's Phase
\* A goes on to Phase B.
C32_ReceiptIndependent ==
    [][\A m \in Msgs :
         /\ rpc'[m] # rpc[m]
            => hpc' = hpc /\ tpc' = tpc /\ pending' = pending
         /\ tpc'[m] # tpc[m] => rpc'[m] = rpc[m]
         /\ tpc[m] \in {"cancelled", "failed"} /\ rpc[m] = "asleep"
            => ENABLED ReceiptAck(m)
         /\ ReceiptCreated(m) /\ rpc[m] = "asleep"
              /\ hpc[m] \notin HandlerReturned \cup {"await"}
            => ENABLED PhaseAStep(m)]_vars
\* the Phase B task of the first event was cancelled by the second and its
\* acknowledgement is over; the second event's Phase B task is at work
\* while its acknowledgement still sleeps
C32_Witness ==
    /\ tpc[1] = "cancelled" /\ rpc[1] = "over"
    /\ tpc[2] \in TaskLive /\ rpc[2] = "asleep"

\* C33: _generate_response never raises on a backend failure; with a key
\* configured and a text that is not empty from the backend it returns that
\* text, and otherwise (no key, an exception, an empty or absent result)
\* the configured fallback message.
C33_ResponseOrFallback ==
    arg.fn = "generate" /\ ret.done
    => ret.text = IF arg.cfg.key = "sk-test" /\ arg.backend \in {"hi", " hi "}
                  THEN "hi"
                  ELSE IF arg.cfg.message = "missing" THEN DefaultReply
                  ELSE arg.cfg.message
\* the backend raised with a key configured and the configured fallback
\* came back
C33_Witness ==
    /\ arg.fn = "generate" /\ arg.cfg.key = "sk-test"
    /\ arg.backend = "raises" /\ arg.cfg.message = "I am away"
    /\ ret.done /\ ret.text = "I am away"

\* C34: for any configured min / max delay the function does not raise and
\* the delay is drawn from a range of two numbers with min <= max, a field
\* that is missing or no number being replaced by its own default.
C34_Claim ==
    arg.fn \in {"RESPONSE_DELAY", "READ_RECEIPT_DELAY"} /\ ret.done
    => /\ ~ret.raised
       /\ ret.min \in Seconds /\ ret.max \in Seconds
       /\ ret.min.n <= ret.max.n

\* C35: once every handler of a sender has returned (its task completed,
\* was cancelled or failed), the pending-task map holds no entry for that
\* sender.
C35_NoStaleEntry ==
    \A s \in Senders :
       (\A m \in Msgs : sender[m] = s => hpc[m] \in HandlerReturned)
       => pending[s] = NoTask
\* two handlers of one sender have returned, the first after its task was
\* cancelled by the second, the second after its own task failed
C35_Witness ==
    /\ sender[1] = 1 /\ sender[2] = 1
    /\ tpc[1] = "cancelled" /\ hpc[1] = "done"
    /\ tpc[2] = "failed" /\ hpc[2] = "raised"
    /\ pending[1] = NoTask

\* C36: no interleaving of storage operations deadlocks: under a fair
\* scheduler every storage operation that has entered _get_lock returns
\* (at any moment, each thread is outside its call or will be again).
C36_EveryCallReturns ==
    \A t \in Threads : []<>(lpc[t] = "idle")
\* one thread is inside the with block of a sender, a second waits for the
\* same lock and a third is inside the eviction loop of _get_lock
C36_Witness ==
    \E t, u, v \in Threads :
       /\ lpc[t] = "section"
       /\ lpc[u] = "obtained" /\ lref[u] = lref[t]
       /\ lpc[v] = "evicting"

\* C37: a code or password submitted while the status waits for it is passed
\* to a sign-in attempt and is not discarded by the next wait: such a value
\* leaves its slot of _auth_inputs only by being returned to _authenticate,
\* which calls sign_in with it.
C37_Claim ==
    [][\A k \in owed :
         auth_inputs'[k] = None
           => /\ value' = auth_inputs[k]
              /\ apc' \in {"signIn", "signInPassword"}]_vars

\* C38: submit_auth_code and submit_auth_password clear AuthState.error and
\* leave AuthState.status unchanged: when the call's
\* _set_auth_state(error=None) has run the error is absent and the status is
\* the one it was.
C38_Claim ==
    [][wpc = "written" /\ wpc' = "signal"
         => /\ auth_state'.error = None
            /\ auth_state'.status = auth_state.status]_vars

\* C39: handling an inbound message of one sender never cancels, replaces or
\* deregisters another sender's pending Phase B task and never changes
\* another sender's record, profile or history-sync marker: a step of the
\* handler, the task or the worker thread of event m changes these for the
\* sender of m only.
C39_OtherSendersUntouched ==
    [][\A m \in Msgs :
         /\ hpc'[m] \notin {"idle", "webRecord", "webDone", "webFailed"}
         /\ \/ hpc'[m] # hpc[m] \/ tpc'[m] # tpc[m]
            \/ delivered'[m] # delivered[m] \/ written'[m] # written[m]
         => \A r \in Senders \ {sender'[m]} :
              /\ pending'[r] = pending[r]
              /\ record'[r] = record[r]
              /\ profile'[r] = profile[r]
              /\ synced'[r] = synced[r]
              /\ \A n \in Msgs : sender[n] = r => tpc'[n] = tpc[n]]_vars
\* two senders: the second one's message has been stored and its task
\* registered while the first one's task is still pending and registered
C39_Witness ==
    /\ sender[1] = 1 /\ sender[2] = 2
    /\ pending[1] = 1 /\ tpc[1] \in TaskLive
    /\ pending[2] = 2 /\ tpc[2] \in TaskLive
    /\ record[2] # <<>>

\* C40: in every reachable state status = authorized implies that the error
\* is absent, and once the status is authorized neither the status nor the
\* error changes again, whatever the operator submits afterwards.
C40_AuthorizedIsFinal ==
    /\ [](auth_state.status = "authorized" => auth_state.error = None)
    /\ [][auth_state.status = "authorized" => auth_state' = auth_state]_vars
\* authorized after a rejected code, and a code was submitted, start to
\* finish, after the authorization
C40_Witness ==
    /\ auth_state.status = "authorized"
    /\ \E i \in DOMAIN log : log[i] = "invalid"
    /\ \A i \in DOMAIN log : log[i] # "needPassword"
    /\ auth_inputs["code"] # None /\ "code" \notin owed
    /\ wpc = "idle"

====
